---- MODULE Spec2Model ----
(***************************************************************************)
(* OBJLoader of picogl/utils/loader/object.py: the line-by-line parse of   *)
(* __init__ and the two conversions to_array_style and                     *)
(* to_single_index_style.                                                  *)
(*                                                                         *)
(* A line of the file is a sequence of one-character strings.  A float is  *)
(* modelled by an integer: the loader never computes with the numbers it   *)
(* reads, it only stores and copies them.                                  *)
(***************************************************************************)
EXTENDS Integers, Sequences, FiniteSets, TLC

\* Number of lines read from the file before the end of file.
MaxLines == 4

VARIABLES
    vertices,   \* self.vertices : flat list of floats
    normals,    \* self.normals
    texcoords,  \* self.texcoords
    indices,    \* self.indices : flat list of face indices
    line,       \* the line the loop of __init__ read last
    lineno,     \* number of lines read so far
    phase,      \* "parsing" | "loaded" | "failed" (an exception left __init__)
    arrayOut,   \* what the latest to_array_style call returned
    singleOut,  \* what the latest to_single_index_style call returned
    lastCall    \* "none" | "array" | "single": the latest conversion called
                \* by the owner of the loader

vars == <<vertices, normals, texcoords, indices, line, lineno, phase,
          arrayOut, singleOut, lastCall>>

raw == <<vertices, normals, texcoords, indices>>

-----------------------------------------------------------------------------
(* Strings and lists of Python *)

Whitespace == {" ", "\t", "\n"}

Min(a, b) == IF a <= b THEN a ELSE b

\* s[a:b] for 0 <= a <= b: the elements at 0-based positions a .. b-1 that
\* exist; a slice never raises, it is cut at the end of the list.
Slice(s, a, b) == SubSeq(s, a + 1, Min(b, Len(s)))

\* line.strip(): empty exactly when every character is whitespace.
StripIsEmpty(l) == \A k \in 1..Len(l) : l[k] \in Whitespace

\* line.startswith("#")
StartsWithHash(l) == Len(l) > 0 /\ l[1] = "#"

RECURSIVE SplitWs(_, _, _)
SplitWs(s, cur, acc) ==
    IF s = <<>>
    THEN IF cur = <<>> THEN acc ELSE Append(acc, cur)
    ELSE IF Head(s) \in Whitespace
         THEN SplitWs(Tail(s), <<>>, IF cur = <<>> THEN acc ELSE Append(acc, cur))
         ELSE SplitWs(Tail(s), Append(cur, Head(s)), acc)

\* line.split(): the maximal runs of non-whitespace characters.
split(l) == SplitWs(l, <<>>, <<>>)

RECURSIVE SplitSep(_, _, _, _)
SplitSep(s, sep, cur, acc) ==
    IF s = <<>>
    THEN Append(acc, cur)
    ELSE IF Head(s) = sep
         THEN SplitSep(Tail(s), sep, <<>>, Append(acc, cur))
         ELSE SplitSep(Tail(s), sep, Append(cur, Head(s)), acc)

\* ref.split("/"): the fields between the separators, empty fields kept.
splitOn(ref, sep) == SplitSep(ref, sep, <<>>, <<>>)

Digits == {"0", "1", "2", "3", "4", "5", "6", "7", "8", "9"}

DigitVal(c) ==
    CASE c = "0" -> 0 [] c = "1" -> 1 [] c = "2" -> 2 [] c = "3" -> 3
      [] c = "4" -> 4 [] c = "5" -> 5 [] c = "6" -> 6 [] c = "7" -> 7
      [] c = "8" -> 8 [] c = "9" -> 9

AllDigits(t) == Len(t) > 0 /\ \A k \in 1..Len(t) : t[k] \in Digits

RECURSIVE DigitsVal(_, _)
DigitsVal(t, acc) ==
    IF t = <<>> THEN acc ELSE DigitsVal(Tail(t), 10 * acc + DigitVal(Head(t)))

\* Whether int(t) returns (it raises ValueError otherwise): an optional sign
\* and decimal digits.
IsInt(t) ==
    \/ AllDigits(t)
    \/ Len(t) > 1 /\ Head(t) \in {"-", "+"} /\ AllDigits(Tail(t))

\* int(t)
int(t) ==
    IF Head(t) = "-" THEN 0 - DigitsVal(Tail(t), 0)
    ELSE IF Head(t) = "+" THEN DigitsVal(Tail(t), 0)
    ELSE DigitsVal(t, 0)

\* Whether float(t) returns; over the characters of the lines below (digits,
\* sign, letters) float accepts what int accepts.
IsFloat(t) == IsInt(t)

\* float(t)
float(t) == int(t)

RECURSIVE MapFloat(_)
\* list(map(float, toks)) as far as extend gets: extend appends the items one
\* by one, so the items before the first bad token are appended.
MapFloat(toks) ==
    IF toks = <<>> \/ ~IsFloat(Head(toks)) THEN <<>>
    ELSE <<float(Head(toks))>> \o MapFloat(Tail(toks))

AllFloat(toks) == \A k \in 1..Len(toks) : IsFloat(toks[k])

-----------------------------------------------------------------------------
(* The lines a file is made of *)

\* "v 2 3 4"
LineV == <<"v", " ", "2", " ", "3", " ", "4">>
\* "v 5 6": a position with two coordinates
LineVShort == <<"v", " ", "5", " ", "6">>
\* "v 7 x 8": a coordinate that is no number
LineVBad == <<"v", " ", "7", " ", "x", " ", "8">>
\* "vn 7 8 9"
LineVN == <<"v", "n", " ", "7", " ", "8", " ", "9">>
\* "vn 6 5": a normal with two coordinates
LineVNShort == <<"v", "n", " ", "6", " ", "5">>
\* "vt 3 5 7": a 3D texture coordinate, the third number is not read
LineVT == <<"v", "t", " ", "3", " ", "5", " ", "7">>
\* "vt 9": a texture coordinate with one number
LineVTShort == <<"v", "t", " ", "9">>
\* "f 1/1/1 1 1/1/1": a triangle, two corners with the same reference
LineFTri == <<"f", " ", "1", "/", "1", "/", "1", " ", "1", " ",
              "1", "/", "1", "/", "1">>
\* "f 2//1 1/1 2//1": a triangle that uses a second position
LineFTri2 == <<"f", " ", "2", "/", "/", "1", " ", "1", "/", "1", " ",
               "2", "/", "/", "1">>
\* "f -1 0 1/": a negative index, a zero, a trailing separator
LineFNeg == <<"f", " ", "-", "1", " ", "0", " ", "1", "/">>
\* "f 1/1/1/7 9": two references, one with four fields, one far out of range
LineFTwo == <<"f", " ", "1", "/", "1", "/", "1", "/", "7", " ", "9">>
\* "f 1 /1 1//1 1": four references, one without a position
LineFQuad == <<"f", " ", "1", " ", "/", "1", " ", "1", "/", "/", "1", " ", "1">>
\* "f 1": one reference
LineFOne == <<"f", " ", "1">>
\* "f 1/x 1 1": a field that is no integer
LineFBad == <<"f", " ", "1", "/", "x", " ", "1", " ", "1">>
\* "# c" and an empty line
LineComment == <<"#", " ", "c">>
LineBlank == <<"\n">>
\* "s 1", "g a", "o"
LineS == <<"s", " ", "1">>
LineG == <<"g", " ", "a">>
LineO == <<"o">>

SampleLines ==
    { LineV, LineVShort, LineVBad, LineVN, LineVNShort, LineVT, LineVTShort,
      LineFTri, LineFTri2, LineFNeg, LineFTwo, LineFQuad, LineFOne, LineFBad,
      LineComment, LineBlank, LineS, LineG, LineO }

-----------------------------------------------------------------------------
(* ObjectData *)

None == [status |-> "none", vertices |-> <<>>, texcoords |-> <<>>,
         normals |-> <<>>, indices |-> <<>>]

\* range(n) as a list
Range(n) == [k \in 1..n |-> k - 1]

\* ObjectData(vertices, texcoords, normals, indices) with __post_init__:
\* indices that are not given become 0 .. len(vertices) // 3 - 1.
ObjectData(vs, ts, ns, idx, given) ==
    [status |-> "returned", vertices |-> vs, texcoords |-> ts, normals |-> ns,
     indices |-> IF given THEN idx ELSE Range(Len(vs) \div 3)]

\* An exception left the call.
Raised(kind) == [status |-> kind, vertices |-> <<>>, texcoords |-> <<>>,
                 normals |-> <<>>, indices |-> <<>>]

-----------------------------------------------------------------------------
(* __init__: one face reference *)

RECURSIVE PadTo3(_)
\* while len(subs) < 3: subs.append("")
PadTo3(subs) == IF Len(subs) < 3 THEN PadTo3(Append(subs, <<>>)) ELSE subs

\* The fields of a reference, padded.
Subs(ref) == PadTo3(splitOn(ref, "/"))

\* int(f) if f else 0
FieldIdx(f) == IF f # <<>> THEN int(f) ELSE 0

\* Whether the three conversions of a reference return.
RefOk(ref) == \A k \in 1..3 : Subs(ref)[k] = <<>> \/ IsInt(Subs(ref)[k])

\* A reference that is not padded to three fields.
RefTripleUnpadded(ref) ==
    [k \in 1..Min(3, Len(splitOn(ref, "/"))) |-> FieldIdx(splitOn(ref, "/")[k])]

\* (v_idx, t_idx, n_idx) of a reference
RefTriple(ref) ==
    <<FieldIdx(Subs(ref)[1]), FieldIdx(Subs(ref)[2]), FieldIdx(Subs(ref)[3])>>

RECURSIVE FaceIndices(_)
\* [idx for face in face_indices for idx in face]
FaceIndices(refs) ==
    IF refs = <<>> THEN <<>>
    ELSE RefTriple(Head(refs)) \o FaceIndices(Tail(refs))

-----------------------------------------------------------------------------
(* to_array_style *)

\* The 1-based index used as a 0-based one.
ArrayPositionZeroBased(V, v_idx) ==
    IF v_idx > 0
    THEN Slice(V, 3 * v_idx, 3 * v_idx + 3)
    ELSE <<0, 0, 0>>

\* lines 121-125: the floats a corner adds to vertices
ArrayPosition(V, v_idx) ==
    IF v_idx > 0
    THEN Slice(V, 3 * (v_idx - 1), 3 * (v_idx - 1) + 3)
    ELSE <<0, 0, 0>>

\* lines 128-132: the floats a corner adds to texcoords
ArrayTexcoord(T, t_idx) ==
    IF t_idx > 0 /\ T # <<>>
    THEN Slice(T, 2 * (t_idx - 1), 2 * (t_idx - 1) + 2)
    ELSE <<0, 0>>

\* The default of a position used for a normal.
ArrayNormalZeroDefault(N, n_idx) ==
    IF n_idx > 0 /\ N # <<>>
    THEN Slice(N, 3 * (n_idx - 1), 3 * (n_idx - 1) + 3)
    ELSE <<0, 0, 0>>

\* lines 135-139: the floats a corner adds to normals
ArrayNormal(N, n_idx) ==
    IF n_idx > 0 /\ N # <<>>
    THEN Slice(N, 3 * (n_idx - 1), 3 * (n_idx - 1) + 3)
    ELSE <<0, 0, 1>>

RECURSIVE ArrayLoop(_, _, _, _, _, _, _, _)
\* for i in range(0, len(self.indices), 3), from i on
ArrayLoop(V, N, T, I, i, vs, ts, ns) ==
    IF i >= Len(I) THEN ObjectData(vs, ts, ns, <<>>, FALSE)
    ELSE LET chunk == Slice(I, i, i + 3)
         IN  IF Len(chunk) # 3 THEN Raised("ValueError")
             ELSE ArrayLoop(V, N, T, I, i + 3,
                            vs \o ArrayPosition(V, chunk[1]),
                            ts \o ArrayTexcoord(T, chunk[2]),
                            ns \o ArrayNormal(N, chunk[3]))

to_array_style(V, N, T, I) == ArrayLoop(V, N, T, I, 0, <<>>, <<>>, <<>>)

-----------------------------------------------------------------------------
(* to_single_index_style *)

\* lines 157-161
SinglePosition(V, v_idx) ==
    IF v_idx > 0
    THEN Slice(V, 3 * (v_idx - 1), 3 * (v_idx - 1) + 3)
    ELSE <<0, 0, 0>>

\* lines 164-168
SingleTexcoord(T, t_idx) ==
    IF t_idx > 0 /\ T # <<>>
    THEN Slice(T, 2 * (t_idx - 1), 2 * (t_idx - 1) + 2)
    ELSE <<0, 0>>

\* The normal table read with the stride of the texcoord table.
SingleNormalStride2(N, n_idx) ==
    IF n_idx > 0 /\ N # <<>>
    THEN Slice(N, 2 * (n_idx - 1), 2 * (n_idx - 1) + 2)
    ELSE <<0, 0, 1>>

\* lines 171-175
SingleNormal(N, n_idx) ==
    IF n_idx > 0 /\ N # <<>>
    THEN Slice(N, 3 * (n_idx - 1), 3 * (n_idx - 1) + 3)
    ELSE <<0, 0, 1>>

\* A key that leaves the normal index out.
KeyWithoutNormal(chunk) == <<chunk[1], chunk[2]>>

\* key = (v_idx, t_idx, n_idx)
Key(chunk) == <<chunk[1], chunk[2], chunk[3]>>

\* Slots counted from 1.
AssignFromOne(combinations, key) ==
    [k \in DOMAIN combinations \cup {key} |->
        IF k = key THEN Cardinality(DOMAIN combinations) + 1
        ELSE combinations[k]]

\* combinations[key] = len(combinations): the dictionary as a function
\* from its keys.
Assign(combinations, key) ==
    [k \in DOMAIN combinations \cup {key} |->
        IF k = key THEN Cardinality(DOMAIN combinations) ELSE combinations[k]]

\* combinations = {}
EmptyDict == [k \in {} |-> 0]

RECURSIVE SingleLoop(_, _, _, _, _, _, _, _, _, _)
\* for i in range(0, len(self.indices), 3), from i on
SingleLoop(V, N, T, I, i, combinations, vs, ts, ns, idx) ==
    IF i >= Len(I) THEN ObjectData(vs, ts, ns, idx, TRUE)
    ELSE LET chunk == Slice(I, i, i + 3)
         IN  IF Len(chunk) # 3 THEN Raised("ValueError")
             ELSE LET key == Key(chunk)
                  IN  IF key \notin DOMAIN combinations
                      THEN LET c == Assign(combinations, key)
                           IN  SingleLoop(V, N, T, I, i + 3, c,
                                          vs \o SinglePosition(V, chunk[1]),
                                          ts \o SingleTexcoord(T, chunk[2]),
                                          ns \o SingleNormal(N, chunk[3]),
                                          Append(idx, c[key]))
                      ELSE SingleLoop(V, N, T, I, i + 3, combinations,
                                      vs, ts, ns,
                                      Append(idx, combinations[key]))

to_single_index_style(V, N, T, I) ==
    SingleLoop(V, N, T, I, 0, EmptyDict, <<>>, <<>>, <<>>, <<>>)

-----------------------------------------------------------------------------
(* The loader *)

Init ==
    /\ vertices = <<>>
    /\ normals = <<>>
    /\ texcoords = <<>>
    /\ indices = <<>>
    /\ line = <<>>
    /\ lineno = 0
    /\ phase = "parsing"
    /\ arrayOut = None
    /\ singleOut = None
    /\ lastCall = "none"

\* for line in f: the next line of the file
Read(l) ==
    /\ phase = "parsing"
    /\ lineno < MaxLines
    /\ line' = l
    /\ lineno' = lineno + 1
    /\ UNCHANGED <<arrayOut, singleOut, lastCall>>

\* if not line.strip() or line.startswith("#"): continue
Skipped(l) == StripIsEmpty(l) \/ StartsWithHash(l)

\* code = parts[0]
Code(l) == split(l)[1]

\* self.<table>.extend(map(float, toks)): the table after it, and the phase
\* (a token that is no float raises ValueError out of __init__).
Extend(table, toks) == table \o MapFloat(toks)

PhaseAfter(toks) == IF AllFloat(toks) THEN "parsing" ELSE "failed"

ParseSkip ==
    \E l \in SampleLines :
        /\ Read(l)
        /\ Skipped(l)
        /\ UNCHANGED <<vertices, normals, texcoords, indices, phase>>

ParseV ==
    \E l \in SampleLines :
        /\ Read(l)
        /\ ~Skipped(l)
        /\ Code(l) = <<"v">>
        /\ vertices' = Extend(vertices, Slice(split(l), 1, 4))
        /\ phase' = PhaseAfter(Slice(split(l), 1, 4))
        /\ UNCHANGED <<normals, texcoords, indices>>

ParseVN ==
    \E l \in SampleLines :
        /\ Read(l)
        /\ ~Skipped(l)
        /\ Code(l) = <<"v", "n">>
        /\ normals' = Extend(normals, Slice(split(l), 1, 4))
        /\ phase' = PhaseAfter(Slice(split(l), 1, 4))
        /\ UNCHANGED <<vertices, texcoords, indices>>

ParseVT ==
    \E l \in SampleLines :
        /\ Read(l)
        /\ ~Skipped(l)
        /\ Code(l) = <<"v", "t">>
        /\ texcoords' = Extend(texcoords, Slice(split(l), 1, 3))
        /\ phase' = PhaseAfter(Slice(split(l), 1, 3))
        /\ UNCHANGED <<vertices, normals, indices>>

\* parts[1:] of a face line
Refs(l) == Slice(split(l), 1, Len(split(l)))

ParseF ==
    \E l \in SampleLines :
        /\ Read(l)
        /\ ~Skipped(l)
        /\ Code(l) = <<"f">>
        /\ IF \A k \in 1..Len(Refs(l)) : RefOk(Refs(l)[k])
           THEN /\ indices' = indices \o FaceIndices(Refs(l))
                /\ phase' = phase
           ELSE /\ indices' = indices
                /\ phase' = "failed"
        /\ UNCHANGED <<vertices, normals, texcoords>>

\* s, mtllib, usemtl (an attribute of that name is set), g, and any other
\* code: the geometry is left alone.
ParseOther ==
    \E l \in SampleLines :
        /\ Read(l)
        /\ ~Skipped(l)
        /\ Code(l) \notin {<<"v">>, <<"v", "n">>, <<"v", "t">>, <<"f">>}
        /\ UNCHANGED <<vertices, normals, texcoords, indices, phase>>

\* The end of the file: self.log_properties(), which calls
\* to_single_index_style once, and __init__ returns.
EndOfFile ==
    /\ phase = "parsing"
    /\ phase' = "loaded"
    /\ singleOut' = to_single_index_style(vertices, normals, texcoords, indices)
    /\ UNCHANGED <<vertices, normals, texcoords, indices, line, lineno,
                   arrayOut, lastCall>>

\* A conversion that leaves its expanded positions in the loader.
ToArrayStyleInPlace ==
    /\ phase = "loaded"
    /\ arrayOut' = to_array_style(vertices, normals, texcoords, indices)
    /\ vertices' = arrayOut'.vertices
    /\ lastCall' = "array"
    /\ UNCHANGED <<normals, texcoords, indices, line, lineno, phase, singleOut>>

ToArrayStyle ==
    /\ phase = "loaded"
    /\ arrayOut' = to_array_style(vertices, normals, texcoords, indices)
    /\ lastCall' = "array"
    /\ UNCHANGED <<vertices, normals, texcoords, indices, line, lineno,
                   phase, singleOut>>

ToSingleIndexStyle ==
    /\ phase = "loaded"
    /\ singleOut' = to_single_index_style(vertices, normals, texcoords, indices)
    /\ lastCall' = "single"
    /\ UNCHANGED <<vertices, normals, texcoords, indices, line, lineno,
                   phase, arrayOut>>

Next ==
    \/ ParseSkip
    \/ ParseV
    \/ ParseVN
    \/ ParseVT
    \/ ParseF
    \/ ParseOther
    \/ EndOfFile
    \/ ToArrayStyle
    \/ ToSingleIndexStyle

Spec == Init /\ [][Next]_vars

-----------------------------------------------------------------------------
(* What the claims speak of *)

Loaded == phase = "loaded"

\* The corners of the face-index stream, three integers each.
Corners == Len(indices) \div 3

Corner(k) == <<indices[3 * k - 2], indices[3 * k - 1], indices[3 * k]>>

Triples == {Corner(k) : k \in 1..Corners}

SetMax(S) == CHOOSE x \in S : \A y \in S : y <= x

SeqSet(s) == {s[k] : k \in 1..Len(s)}

\* Number of entries of each attribute table.
PositionCount == Len(vertices) \div 3
TexcoordCount == Len(texcoords) \div 2
NormalCount == Len(normals) \div 3

\* Valid input: the tables hold whole entries and every positive index of a
\* corner is within its table (a texcoord or normal index may be positive with
\* an empty table: the attribute is then absent from the whole file).
TablesWhole ==
    /\ Len(vertices) % 3 = 0
    /\ Len(texcoords) % 2 = 0
    /\ Len(normals) % 3 = 0

IndicesInRange ==
    \A k \in 1..Corners :
        /\ Corner(k)[1] > 0 => Corner(k)[1] <= PositionCount
        /\ (Corner(k)[2] > 0 /\ texcoords # <<>>) => Corner(k)[2] <= TexcoordCount
        /\ (Corner(k)[3] > 0 /\ normals # <<>>) => Corner(k)[3] <= NormalCount

ValidInput == TablesWhole /\ IndicesInRange

\* The shared resolution rule of the specification, for an index in range.
RulePosition(p) ==
    IF p > 0
    THEN <<vertices[3 * p - 2], vertices[3 * p - 1], vertices[3 * p]>>
    ELSE <<0, 0, 0>>

RuleTexcoord(t) ==
    IF t > 0 /\ texcoords # <<>>
    THEN <<texcoords[2 * t - 1], texcoords[2 * t]>>
    ELSE <<0, 0>>

RuleNormal(n) ==
    IF n > 0 /\ normals # <<>>
    THEN <<normals[3 * n - 2], normals[3 * n - 1], normals[3 * n]>>
    ELSE <<0, 0, 1>>

\* The entry of width w at 0-based position s of a flat output list.
Entry(list, w, s) == SubSeq(list, w * s + 1, w * s + w)

-----------------------------------------------------------------------------
\* C1: in the output of to_single_index_style two corners have the same index
\* exactly when they have the same (posIdx, texIdx, normIdx) triple.
DedupCorrect ==
    Loaded =>
        /\ singleOut.status = "returned"
        /\ Len(singleOut.indices) = Corners
        /\ \A j, k \in 1..Corners :
              (singleOut.indices[j] = singleOut.indices[k])
                  <=> (Corner(j) = Corner(k))

\* A loaded file with two corners of one triple and two corners of different
\* triples, converted again by the owner.
DedupWitness ==
    /\ Loaded
    /\ lastCall = "single"
    /\ \E j, k \in 1..Corners : j # k /\ Corner(j) = Corner(k)
    /\ \E j, k \in 1..Corners :
          /\ Corner(j) # Corner(k)
          /\ Corner(j)[1] = Corner(k)[1]
          /\ Corner(j)[2] = Corner(k)[2]

\* C2: on valid input the single-index output has one index per corner and
\* the slots used are exactly 0 .. N-1, N the number of distinct triples,
\* with max(indices) + 1 == len(vertices) / 3.
SlotsDense ==
    (Loaded /\ ValidInput) =>
        /\ singleOut.status = "returned"
        /\ Len(singleOut.indices) = Corners
        /\ Corners > 0 =>
              /\ 3 * (SetMax(SeqSet(singleOut.indices)) + 1)
                    = Len(singleOut.vertices)
              /\ SeqSet(singleOut.indices) = 0 .. (Cardinality(Triples) - 1)

\* Valid input with a repeated triple and a position read from the table.
SlotsDenseWitness ==
    /\ Loaded
    /\ ValidInput
    /\ Corners >= 3
    /\ Cardinality(Triples) >= 2
    /\ Cardinality(Triples) < Corners
    /\ PositionCount >= 1

\* C3: on valid input to_array_style returns one vertex per corner, and the
\* position, texcoord and normal of vertex i are what the shared resolution
\* rule gives for corner i, in file order.
ArrayStyleExact ==
    (arrayOut.status # "none" /\ ValidInput) =>
        /\ arrayOut.status = "returned"
        /\ Len(arrayOut.vertices) = 3 * Corners
        /\ Len(arrayOut.texcoords) = 2 * Corners
        /\ Len(arrayOut.normals) = 3 * Corners
        /\ \A i \in 1..Corners :
              /\ Entry(arrayOut.vertices, 3, i - 1) = RulePosition(Corner(i)[1])
              /\ Entry(arrayOut.texcoords, 2, i - 1) = RuleTexcoord(Corner(i)[2])
              /\ Entry(arrayOut.normals, 3, i - 1) = RuleNormal(Corner(i)[3])

\* A triangle on valid input whose corners read a position, a texcoord and a
\* normal from the tables, and a corner that takes defaults.
ArrayStyleWitness ==
    /\ arrayOut.status = "returned"
    /\ ValidInput
    /\ Corners = 3
    /\ \E i \in 1..Corners :
          /\ Corner(i)[1] > 0
          /\ Corner(i)[2] > 0 /\ texcoords # <<>>
    /\ \E i \in 1..Corners : Corner(i)[3] > 0 /\ normals # <<>>
    /\ \E i \in 1..Corners : Corner(i)[2] = 0

\* The corner where the triple of corner k occurs first, and the number of
\* distinct triples before it.
FirstOccurrence(k) ==
    CHOOSE j \in 1..k :
        Corner(j) = Corner(k) /\ \A h \in 1..(j - 1) : Corner(h) # Corner(k)

SlotOrder(k) == Cardinality({Corner(h) : h \in 1..(FirstOccurrence(k) - 1)})

\* C9: on valid input the s-th distinct triple in file order gets slot s, the
\* attributes at slot s are the shared-rule resolution of that triple, and so
\* the attributes at slot indices[k] are those to_array_style stores for
\* vertex k.
FirstOccurrenceOrder ==
    (Loaded /\ ValidInput) =>
        /\ Len(singleOut.indices) = Corners
        /\ Len(singleOut.vertices) = 3 * Cardinality(Triples)
        /\ Len(singleOut.texcoords) = 2 * Cardinality(Triples)
        /\ Len(singleOut.normals) = 3 * Cardinality(Triples)
        /\ \A k \in 1..Corners :
              LET s == singleOut.indices[k]
              IN  /\ s = SlotOrder(k)
                  /\ Entry(singleOut.vertices, 3, s) = RulePosition(Corner(k)[1])
                  /\ Entry(singleOut.texcoords, 2, s) = RuleTexcoord(Corner(k)[2])
                  /\ Entry(singleOut.normals, 3, s) = RuleNormal(Corner(k)[3])
                  /\ (arrayOut.status = "returned"
                        /\ Len(arrayOut.vertices) = 3 * Corners
                        /\ Len(arrayOut.texcoords) = 2 * Corners
                        /\ Len(arrayOut.normals) = 3 * Corners) =>
                        /\ Entry(singleOut.vertices, 3, s)
                              = Entry(arrayOut.vertices, 3, k - 1)
                        /\ Entry(singleOut.texcoords, 2, s)
                              = Entry(arrayOut.texcoords, 2, k - 1)
                        /\ Entry(singleOut.normals, 3, s)
                              = Entry(arrayOut.normals, 3, k - 1)

\* Valid input where a later corner reuses the slot of an earlier one, after
\* a different triple came in between, with both outputs at hand.
FirstOccurrenceWitness ==
    /\ Loaded
    /\ ValidInput
    /\ arrayOut.status = "returned"
    /\ lastCall = "single"
    /\ \E j, k \in 1..Corners :
          /\ j + 1 < k
          /\ Corner(j) = Corner(k)
          /\ Corner(j + 1) # Corner(j)
          /\ Corner(j)[1] > 0
          /\ Corner(j + 1)[2] > 0 /\ texcoords # <<>>

-----------------------------------------------------------------------------
(* Where a corner's floats lie in an output list, whatever the input: a     *)
(* slice of a table yields the floats that exist, between none and the      *)
(* attribute's width.                                                       *)

Got(len, idx, w) ==
    IF w * (idx - 1) >= len THEN 0 ELSE Min(w, len - w * (idx - 1))

PositionWidth(c) == IF c[1] > 0 THEN Got(Len(vertices), c[1], 3) ELSE 3

TexcoordWidth(c) ==
    IF c[2] > 0 /\ texcoords # <<>> THEN Got(Len(texcoords), c[2], 2) ELSE 2

NormalWidth(c) ==
    IF c[3] > 0 /\ normals # <<>> THEN Got(Len(normals), c[3], 3) ELSE 3

RECURSIVE SumTo(_, _)
SumTo(f, n) == IF n = 0 THEN 0 ELSE f[n] + SumTo(f, n - 1)

RECURSIVE Starts(_, _)
\* Where each of the first n contributions begins, given their widths.
Starts(widths, n) ==
    IF n = 0 THEN <<>>
    ELSE IF n = 1 THEN <<0>>
    ELSE LET before == Starts(widths, n - 1)
         IN  Append(before, before[n - 1] + widths[n - 1])

\* The corner that was given slot s, and the number of slots.
SlotCorner(s) ==
    CHOOSE k \in 1..Corners :
        /\ singleOut.indices[k] = s
        /\ \A h \in 1..(k - 1) : singleOut.indices[h] # s

Slots == Cardinality(Triples)

RECURSIVE ArrayWidths(_, _)
\* The widths of the contributions of the first n corners: Width(c) is the
\* width of the contribution of a corner c.
ArrayWidths(Width(_), n) ==
    IF n = 0 THEN <<>>
    ELSE Append(ArrayWidths(Width, n - 1), Width(Corner(n)))

RECURSIVE SingleWidths(_, _)
\* The widths of the contributions of the first n slots.
SingleWidths(Width(_), n) ==
    IF n = 0 THEN <<>>
    ELSE Append(SingleWidths(Width, n - 1), Width(Corner(SlotCorner(n - 1))))

ArrayPositionWidths == ArrayWidths(PositionWidth, Corners)
ArrayTexcoordWidths == ArrayWidths(TexcoordWidth, Corners)
ArrayNormalWidths == ArrayWidths(NormalWidth, Corners)

SinglePositionWidths == SingleWidths(PositionWidth, Slots)
SingleTexcoordWidths == SingleWidths(TexcoordWidth, Slots)
SingleNormalWidths == SingleWidths(NormalWidth, Slots)

\* Whether the floats of a list are the contributions of the given widths,
\* the n-th of them (from 1) equal to default whenever absent[n] holds.
DefaultsIn(list, widths, absent, default) ==
    LET starts == Starts(widths, Len(widths))
    IN  /\ Len(list) = SumTo(widths, Len(widths))
        /\ \A n \in 1..Len(widths) :
              absent[n] =>
                  SubSeq(list, starts[n] + 1, starts[n] + widths[n]) = default

\* The defaults of the claim, by corner.
PositionAbsent(c) == c[1] = 0
TexcoordAbsent(c) == c[2] = 0 \/ texcoords = <<>>
NormalAbsent(c) == c[3] = 0 \/ normals = <<>>

\* Whether a corner that Absent(_) holds of was given slot s.
SlotHas(Absent(_), s) ==
    \E i \in 1..Corners : singleOut.indices[i] = s /\ Absent(Corner(i))

\* C6: in both conversion styles a corner without texcoord index, or with an
\* empty texcoord table, gets texcoord (0, 0); without normal index, or with
\* an empty normal table, normal (0, 0, 1); without position index, position
\* (0, 0, 0); each attribute by itself.
DefaultSubstitution ==
    /\ arrayOut.status # "none" =>
          /\ arrayOut.status = "returned"
          /\ DefaultsIn(arrayOut.vertices, ArrayPositionWidths,
                        [i \in 1..Corners |-> PositionAbsent(Corner(i))],
                        <<0, 0, 0>>)
          /\ DefaultsIn(arrayOut.texcoords, ArrayTexcoordWidths,
                        [i \in 1..Corners |-> TexcoordAbsent(Corner(i))],
                        <<0, 0>>)
          /\ DefaultsIn(arrayOut.normals, ArrayNormalWidths,
                        [i \in 1..Corners |-> NormalAbsent(Corner(i))],
                        <<0, 0, 1>>)
    /\ Loaded =>
          /\ singleOut.status = "returned"
          /\ Len(singleOut.indices) = Corners
          /\ SeqSet(singleOut.indices) = 0 .. (Slots - 1)
          /\ DefaultsIn(singleOut.vertices, SinglePositionWidths,
                        [s \in 1..Slots |-> SlotHas(PositionAbsent, s - 1)],
                        <<0, 0, 0>>)
          /\ DefaultsIn(singleOut.texcoords, SingleTexcoordWidths,
                        [s \in 1..Slots |-> SlotHas(TexcoordAbsent, s - 1)],
                        <<0, 0>>)
          /\ DefaultsIn(singleOut.normals, SingleNormalWidths,
                        [s \in 1..Slots |-> SlotHas(NormalAbsent, s - 1)],
                        <<0, 0, 1>>)

\* Both outputs of a file with a corner without position, a corner that reads
\* position and normal and has no texcoord index, a corner with a texcoord
\* index and an empty texcoord table, and a corner without normal index.
DefaultSubstitutionWitness ==
    /\ arrayOut.status = "returned"
    /\ lastCall = "single"
    /\ texcoords = <<>>
    /\ \E i \in 1..Corners : Corner(i)[1] = 0
    /\ \E i \in 1..Corners :
          /\ Corner(i)[1] > 0 /\ Corner(i)[1] <= PositionCount
          /\ Corner(i)[2] = 0
          /\ Corner(i)[3] > 0 /\ Corner(i)[3] <= NormalCount
    /\ \E i \in 1..Corners : Corner(i)[2] > 0
    /\ \E i \in 1..Corners : Corner(i)[3] = 0

-----------------------------------------------------------------------------
\* C7: once the file is loaded no conversion call changes the loader's
\* positions, normals, texcoords or face-index stream, and every further
\* to_single_index_style call returns what the call before it returned.
ConversionIdempotent ==
    [][Loaded => (raw' = raw /\ singleOut' = singleOut)]_vars

\* to_single_index_style called again after a to_array_style call, on a file
\* with faces and a repeated triple.
ConversionIdempotentWitness ==
    /\ Loaded
    /\ lastCall = "single"
    /\ arrayOut.status = "returned"
    /\ Corners >= 3
    /\ Cardinality(Triples) < Corners
    /\ Cardinality(Triples) >= 2

-----------------------------------------------------------------------------
(* A face line as the file gives it *)

FaceLine(l) == ~Skipped(l) /\ split(l)[1] = <<"f">>

\* The reference tokens of a face line.
FaceRefs(l) == Tail(split(l))

\* Whether field j of a reference is written: it exists and is not empty.
Present(ref, j) ==
    j <= Len(splitOn(ref, "/")) /\ splitOn(ref, "/")[j] # <<>>

\* The corner a reference stands for: a written field as the integer it
\* spells, 0 for a missing one.
RefCorner(ref) ==
    [j \in 1..3 |-> IF Present(ref, j) THEN int(splitOn(ref, "/")[j]) ELSE 0]

RECURSIVE RefCorners(_)
RefCorners(refs) ==
    IF refs = <<>> THEN <<>> ELSE RefCorner(Head(refs)) \o RefCorners(Tail(refs))

\* A step of the loop of __init__ that read a line and did not raise.
ReadStep == lineno' = lineno + 1 /\ phase' = "parsing"

\* C10: the face-index stream always holds whole triples: a face line with k
\* references, of any number of fields each, appends exactly the k triples of
\* its references and no other line appends anything; so the conversions
\* walk whole corners, never fail on a chunk, and return one index (on valid
\* input one vertex) per corner.
ChunkAligned ==
    /\ [](/\ Len(indices) % 3 = 0
          /\ Loaded =>
                /\ singleOut.status = "returned"
                /\ Len(singleOut.indices) = Corners
          /\ arrayOut.status # "none" =>
                /\ arrayOut.status = "returned"
                /\ Len(arrayOut.vertices) = SumTo(ArrayPositionWidths, Corners)
                /\ ValidInput =>
                      /\ Len(arrayOut.vertices) = 3 * Corners
                      /\ Len(arrayOut.indices) = Corners)
    /\ [][ReadStep =>
            IF FaceLine(line')
            THEN /\ indices' = indices \o RefCorners(FaceRefs(line'))
                 /\ Len(indices') = Len(indices) + 3 * Len(FaceRefs(line'))
            ELSE indices' = indices]_vars

\* Both outputs of a file whose last line is a face with a number of
\* references other than three, one of them with other than three fields.
ChunkAlignedWitness ==
    /\ Loaded
    /\ arrayOut.status = "returned"
    /\ lastCall = "single"
    /\ FaceLine(line)
    /\ Len(FaceRefs(line)) \in {1, 2, 4}
    /\ \E r \in 1..Len(FaceRefs(line)) :
          Len(splitOn(FaceRefs(line)[r], "/")) \in {2, 4}
    /\ Corners > Len(FaceRefs(line))

-----------------------------------------------------------------------------
\* A positive index beyond the entries of its table, the table not empty.
OutOfRange(c) ==
    \/ c[1] > PositionCount /\ vertices # <<>>
    \/ c[2] > TexcoordCount /\ texcoords # <<>>
    \/ c[3] > NormalCount /\ normals # <<>>

\* C4: with a corner whose positive index exceeds its non-empty table (the
\* tables holding whole entries), neither conversion returns an output.
OutOfRangeRejected ==
    (TablesWhole /\ \E k \in 1..Corners : OutOfRange(Corner(k))) =>
        /\ Loaded => singleOut.status # "returned"
        /\ arrayOut.status # "none" => arrayOut.status # "returned"

\* A v or vn line followed by fewer than 3 tokens, a vt line by fewer than 2.
ShortAttributeLine(l) ==
    /\ ~Skipped(l)
    /\ \/ split(l)[1] \in {<<"v">>, <<"v", "n">>} /\ Len(Tail(split(l))) < 3
       \/ split(l)[1] = <<"v", "t">> /\ Len(Tail(split(l))) < 2

\* C5: a short attribute line makes the parse fail, so a loaded file has
\* whole positions, normals and texcoords.
ShortLineRejected ==
    /\ (lineno > 0 /\ ShortAttributeLine(line)) => phase = "failed"
    /\ Loaded => TablesWhole

\* C8: every integer of the face-index stream is 0 for a field that is
\* missing or empty, or the positive index the field spells; a field that is
\* written is never stored as 0 or as a negative number.
FaceIndexInvariant ==
    /\ \A k \in 1..Len(indices) : indices[k] >= 0
    /\ (lineno > 0 /\ phase = "parsing" /\ FaceLine(line)) =>
          LET refs == FaceRefs(line)
              base == Len(indices) - 3 * Len(refs)
          IN  \A r \in 1..Len(refs) : \A j \in 1..3 :
                  LET stored == indices[base + 3 * (r - 1) + j]
                  IN  IF Present(refs[r], j)
                      THEN stored > 0 /\ stored = int(splitOn(refs[r], "/")[j])
                      ELSE stored = 0

====
